---- MODULE Spec2Model ----
(***************************************************************************)
(* A model of notion_news.py: the arXiv -> Notion sync.  One run of main   *)
(* tests the connection, runs the debug fetch, fetches and ranks the feed, *)
(* loads the existing titles page by page, inserts the top max_articles    *)
(* candidates that are not known, and archives the oldest records.         *)
(*                                                                         *)
(* Text is a sequence of one-character strings, a date is a day number, a  *)
(* store record is [title, date, archived] and its id is its position in   *)
(* the store.  Every call to the store (query, create, archive) is one     *)
(* step, may succeed or raise, and is logged in calls with its outcome.    *)
(* An article keeps the fields the sync decides on (title, published,      *)
(* relevance, category); links, authors and the abstract body only pass    *)
(* through to the created page.                                            *)
(*                                                                         *)
(* Spec is one run of main from any store; SpecRuns is run after run       *)
(* against an unchanged feed; SpecFetch is a run from the fetch on, over   *)
(* richer feeds; SpecLoad and SpecScore are fetch_existing_titles and      *)
(* calculate_relevance on their own.                                       *)
(***************************************************************************)
EXTENDS Integers, Sequences, FiniteSets, TLC

VARIABLES
    keywords,       \* config['keywords']: [high_priority, medium_priority, low_priority]
    min_relevance,  \* config['min_relevance']
    max_articles,   \* config['max_articles']
    store,          \* the Notion database: Seq of [title, date, archived]
    pc,             \* where main stands
    feed,           \* what arXiv answers per category, where a specification fixes it
    articles,       \* main: articles
    existing,       \* fetch_existing_titles: titles
    has_more,       \* fetch_existing_titles: has_more
    start_cursor,   \* fetch_existing_titles: start_cursor (0 is None)
    idx,            \* main: the position i of the reconcile loop
    new_count,      \* main: new_count
    pages,          \* trim_database: pages (ids, oldest first)
    to_archive,     \* trim_database: to_archive
    arch,           \* trim_database: position in pages[:to_archive]
    calls,          \* the store calls of this run, in order, with their outcome
    run,            \* number of the run
    prev,           \* the run before: its articles, where it ended, what it created and archived
    text_in,        \* scorer harness: the (title, abstract) given
    relevance       \* scorer harness: what calculate_relevance returned

vars == <<keywords, min_relevance, max_articles, store, pc, feed, articles,
          existing, has_more, start_cursor, idx, new_count, pages, to_archive,
          arch, calls, run, prev, text_in, relevance>>

----------------------------------------------------------------------------
(* Bounds of the model *)

\* page_size of the store queries (100 in the source), scaled so that a
\* store of more than one page fits in the bounds
PageSize == 2
\* most records in the store at the start of a run
MaxInit == 3
\* largest max_articles tried
MaxArticlesBound == 2
\* most keywords per tier in the scorer harness
MaxKeywords == 1
\* longest title in the scorer harness
MaxTitleLen == 2
\* most entries per category response in the fetch harness
MaxEntries == 2
\* runs of main in SpecRuns
MaxRuns == 2

----------------------------------------------------------------------------
(* Text *)

Max(a, b) == IF a >= b THEN a ELSE b
Min(a, b) == IF a <= b THEN a ELSE b

\* str.lower, on the alphabet of the model
LowerChar(c) ==
    CASE c = "G" -> "g"
      [] c = "C" -> "c"
      [] c = "X" -> "x"
      [] OTHER -> c

Lower(s) == [n \in 1..Len(s) |-> LowerChar(s[n])]

\* Python's `k in t` on strings
IsSubstring(k, t) ==
    \E n \in 0..(Len(t) - Len(k)) : SubSeq(t, n + 1, n + Len(k)) = k

\* ' '.join(s.split()): runs of blanks collapse, leading and trailing go
RECURSIVE Normalize(_)
Normalize(s) ==
    IF s = <<>> THEN <<>>
    ELSE IF Head(s) = " " THEN Normalize(Tail(s))
    ELSE IF Len(s) >= 2 /\ s[2] = " "
         THEN LET rest == Normalize(Tail(s))
              IN  IF rest = <<>> THEN <<Head(s)>> ELSE <<Head(s), " ">> \o rest
         ELSE <<Head(s)>> \o Normalize(Tail(s))

----------------------------------------------------------------------------
(* calculate_relevance *)

HighScore == 5
MediumScore == 3
LowScore == 1

\* one `for keyword in tier` loop: the running (score, matching_keywords)
RECURSIVE ScanTier(_, _, _, _)
ScanTier(tier, text, value, acc) ==
    IF tier = <<>> THEN acc
    ELSE LET kw == Head(tier)
             nxt == IF IsSubstring(Lower(kw), text)
                    THEN [score |-> Max(acc.score, value),
                          matching_keywords |-> Append(acc.matching_keywords, kw)]
                    ELSE acc
         IN  ScanTier(Tail(tier), text, value, nxt)

\* (a scorer whose medium tier assigns 3 instead of raising the score to 3)
calculate_relevance_assign(kws, title, abstract) ==
    LET text == Lower(title \o <<" ">> \o abstract)
        h == ScanTier(kws.high_priority, text, HighScore,
                      [score |-> 0, matching_keywords |-> <<>>])
        m == ScanTier(kws.medium_priority, text, MediumScore,
                      [score |-> 0, matching_keywords |-> h.matching_keywords])
        m2 == [m EXCEPT !.score = IF m.score > 0 THEN m.score ELSE h.score]
        l == ScanTier(kws.low_priority, text, LowScore, m2)
    IN  [score |-> IF l.score > 0 THEN l.score ELSE 1,
         matching_keywords |-> l.matching_keywords]

\* (a scorer without the final `if score > 0 else 1`)
calculate_relevance_raw(kws, title, abstract) ==
    LET text == Lower(title \o <<" ">> \o abstract)
        h == ScanTier(kws.high_priority, text, HighScore,
                      [score |-> 0, matching_keywords |-> <<>>])
        m == ScanTier(kws.medium_priority, text, MediumScore, h)
    IN  ScanTier(kws.low_priority, text, LowScore, m)


calculate_relevance(kws, title, abstract) ==
    LET text == Lower(title \o <<" ">> \o abstract)
        h == ScanTier(kws.high_priority, text, HighScore,
                      [score |-> 0, matching_keywords |-> <<>>])
        m == ScanTier(kws.medium_priority, text, MediumScore, h)
        l == ScanTier(kws.low_priority, text, LowScore, m)
    IN  [score |-> IF l.score > 0 THEN l.score ELSE 1,
         matching_keywords |-> l.matching_keywords]

----------------------------------------------------------------------------
(* The feed: what arXiv answers for one category is an error (the request, *)
(* its status or the XML parse raises) or a list of entries.  An element   *)
(* of an entry is absent ("none"), childless ("leaf"), or has children,    *)
(* with text ("node") or without ("node_notext": its .text is None).       *)
(* ElementTree's truth value of an element is whether it has children.     *)

Elem(kind, text) == [kind |-> kind, text |-> text]
\* the published element: its text parses to a naive or an aware datetime,
\* or does not parse
Published(kind, fmt, day) == [kind |-> kind, fmt |-> fmt, day |-> day]

Entry(t, l, p, s) ==
    [title_elem |-> t, link_elem |-> l, published_elem |-> p, summary_elem |-> s]

\* bool(element): an element without children is false, like None
Truthy(elem) == elem.kind \in {"node", "node_notext"}

\* cutoff_date = now - 7 days, as a day number
cutoff_date == 1

\* One pass of the body of `for entry in root.findall(...)`:
\* "skip" (continue), "raise" (an exception leaves the loop) or the item.
ProcessEntry(entry, category, kws, minrel) ==
    IF ~(Truthy(entry.title_elem) /\ Truthy(entry.link_elem)
         /\ Truthy(entry.published_elem) /\ Truthy(entry.summary_elem))
    THEN [kind |-> "skip"]
    ELSE IF entry.title_elem.kind = "node_notext"
            \/ entry.summary_elem.kind = "node_notext"
            \/ entry.published_elem.kind = "node_notext"
            \/ entry.published_elem.fmt = "malformed"
    THEN [kind |-> "raise"]        \* None.split(), None.replace(), fromisoformat
    ELSE IF entry.published_elem.fmt = "aware"
    THEN [kind |-> "raise"]        \* aware < naive datetime.now(): TypeError
    ELSE IF entry.published_elem.day < cutoff_date
    THEN [kind |-> "skip"]
    ELSE LET title == Normalize(entry.title_elem.text)
             abstract == Normalize(entry.summary_elem.text)
             rel == calculate_relevance(kws, title, abstract)
         IN  IF rel.score < minrel THEN [kind |-> "skip"]
             ELSE IF entry.link_elem.kind = "node_notext"
             THEN [kind |-> "raise"]   \* get_pdf_url(None): re.search raises
             ELSE [kind |-> "item",
                   item |-> [title |-> title,
                             published |-> entry.published_elem.day,
                             category |-> category,
                             relevance |-> rel.score]]

\* the entries of one category, appended to all_entries until one raises
RECURSIVE ProcessEntries(_, _, _, _, _)
ProcessEntries(entries, category, kws, minrel, all_entries) ==
    IF entries = <<>> THEN all_entries
    ELSE LET r == ProcessEntry(Head(entries), category, kws, minrel)
         IN  CASE r.kind = "raise" -> all_entries
               [] r.kind = "skip" ->
                    ProcessEntries(Tail(entries), category, kws, minrel, all_entries)
               [] OTHER ->
                    ProcessEntries(Tail(entries), category, kws, minrel,
                                   Append(all_entries, r.item))

\* the try/except of one category
ProcessCategory(response, category, kws, minrel, all_entries) ==
    IF response.status = "error" THEN all_entries
    ELSE ProcessEntries(response.entries, category, kws, minrel, all_entries)

\* (a loop that a failing category ends: no try/except around the request)
RECURSIVE FetchLoopAbort(_, _, _, _, _)
FetchLoopAbort(categories, responses, kws, minrel, acc) ==
    IF categories = <<>> THEN acc
    ELSE LET c == Head(categories)
             nxt == [all_entries |-> ProcessCategory(responses[c], c, kws, minrel,
                                                     acc.all_entries),
                     requested |-> Append(acc.requested, c)]
         IN  IF responses[c].status = "error" THEN nxt
             ELSE FetchLoopAbort(Tail(categories), responses, kws, minrel, nxt)


\* `for i, category in enumerate(categories)`: all_entries and the requests made
RECURSIVE FetchLoop(_, _, _, _, _)
FetchLoop(categories, responses, kws, minrel, acc) ==
    IF categories = <<>> THEN acc
    ELSE LET c == Head(categories)
         IN  FetchLoop(Tail(categories), responses, kws, minrel,
                 [all_entries |-> ProcessCategory(responses[c], c, kws, minrel,
                                                  acc.all_entries),
                  requested |-> Append(acc.requested, c)])

\* (a sort on the score alone)
KeyLessScoreOnly(a, b) == a.relevance < b.relevance

\* key=lambda x: (x['relevance'], x['published']), compared as tuples
KeyLess(a, b) ==
    \/ a.relevance < b.relevance
    \/ a.relevance = b.relevance /\ a.published < b.published

\* list.sort(key=..., reverse=True): descending, equal keys keep their order
RECURSIVE InsertDesc(_, _)
InsertDesc(sorted, x) ==
    IF sorted = <<>> THEN <<x>>
    ELSE IF KeyLess(Head(sorted), x) THEN <<x>> \o sorted
    ELSE <<Head(sorted)>> \o InsertDesc(Tail(sorted), x)

RECURSIVE SortEntries(_, _)
SortEntries(entries, sorted) ==
    IF entries = <<>> THEN sorted
    ELSE SortEntries(Tail(entries), InsertDesc(sorted, Head(entries)))

fetch_arxiv_articles(categories, responses, kws, minrel) ==
    SortEntries(FetchLoop(categories, responses, kws, minrel,
                          [all_entries |-> <<>>, requested |-> <<>>]).all_entries,
                <<>>)

\* debug_fetch_arxiv: nothing is caught, so the request, the parse or one
\* entry raising ends main.  TRUE when it raises.
DebugEntryRaises(entry) ==
    /\ Truthy(entry.title_elem) /\ Truthy(entry.published_elem)
    /\ Truthy(entry.summary_elem)
    /\ \/ entry.title_elem.kind = "node_notext"
       \/ entry.summary_elem.kind = "node_notext"
       \/ entry.published_elem.kind = "node_notext"
       \/ entry.published_elem.fmt \in {"malformed", "aware"}

debug_fetch_arxiv(response) ==
    \/ response.status = "error"
    \/ \E n \in 1..Len(response.entries) : DebugEntryRaises(response.entries[n])

----------------------------------------------------------------------------
(* The store (the Notion database) *)

\* ids of the live (not archived) records, in store order
LiveIds(st) == SelectSeq([n \in 1..Len(st) |-> n], LAMBDA n : ~st[n].archived)

Live(st) == {n \in 1..Len(st) : ~st[n].archived}

\* the `sorts` of a query: ascending by Date, equal dates in store order
RECURSIVE InsertAsc(_, _, _)
InsertAsc(st, sorted, n) ==
    IF sorted = <<>> THEN <<n>>
    ELSE IF st[n].date < st[Head(sorted)].date THEN <<n>> \o sorted
    ELSE <<Head(sorted)>> \o InsertAsc(st, Tail(sorted), n)

RECURSIVE SortByDate(_, _, _)
SortByDate(st, ids, sorted) ==
    IF ids = <<>> THEN sorted
    ELSE SortByDate(st, Tail(ids), InsertAsc(st, sorted, Head(ids)))

\* databases.query: the records of `ids` from the cursor on (0: from the
\* start), a page of them, and whether and where it goes on
QueryPage(ids, cursor, page_size) ==
    LET from == IF cursor = 0 THEN ids ELSE SelectSeq(ids, LAMBDA n : n >= cursor)
        results == SubSeq(from, 1, Min(Len(from), page_size))
        more == Len(from) > page_size
    IN  [results |-> results,
         has_more |-> more,
         next_cursor |-> IF more THEN from[page_size + 1] ELSE 0]

\* pages.create: the new record goes last
CreatePage(st, article) ==
    Append(st, [title |-> article.title, date |-> article.published,
                archived |-> FALSE])

\* pages.update(archived=True)
ArchivePage(st, id) == [st EXCEPT ![id].archived = TRUE]

Call(op, title, id, ok) == [op |-> op, title |-> title, id |-> id, ok |-> ok]

----------------------------------------------------------------------------
(* main, one store call per step *)

\* config['arxiv_categories']
arxiv_categories == <<"gr-qc", "astro-ph">>

\* the locals of a run before it has run
Fresh ==
    /\ articles = <<>> /\ existing = {} /\ has_more = TRUE /\ start_cursor = 0
    /\ idx = 1 /\ new_count = 0 /\ pages = <<>> /\ to_archive = 0 /\ arch = 1
    /\ calls = <<>>

\* test_database_connection
TestConnection ==
    /\ pc = "start"
    /\ \E ok \in BOOLEAN : pc' = IF ok THEN "debug" ELSE "no_connection"
    /\ UNCHANGED <<keywords, min_relevance, max_articles, store, feed, articles,
                   existing, has_more, start_cursor, idx, new_count, pages,
                   to_archive, arch, calls, run, prev, text_in, relevance>>

\* debug_fetch_arxiv('gr-qc'): it returns, or its exception ends main
DebugFetch(response) ==
    /\ pc = "debug"
    /\ pc' = IF debug_fetch_arxiv(response) THEN "crashed" ELSE "fetch"
    /\ UNCHANGED <<keywords, min_relevance, max_articles, store, feed, articles,
                   existing, has_more, start_cursor, idx, new_count, pages,
                   to_archive, arch, calls, run, prev, text_in, relevance>>

\* articles = fetch_arxiv_articles(...); if not articles: return
Fetch(responses) ==
    /\ pc = "fetch"
    /\ articles' = fetch_arxiv_articles(arxiv_categories, responses, keywords, min_relevance)
    /\ pc' = IF articles' = <<>> THEN "no_articles" ELSE "load"
    /\ UNCHANGED <<keywords, min_relevance, max_articles, store, feed, existing,
                   has_more, start_cursor, idx, new_count, pages, to_archive,
                   arch, calls, run, prev, text_in, relevance>>

\* the titles.add loop over one page of results: a record without a
\* title adds nothing
TitlesOfFirstOnly(st, results) ==
    IF results = <<>> \/ st[results[1]].title = <<>> THEN {}
    ELSE {st[results[1]].title}

TitlesOf(st, results) ==
    {t \in {st[results[n]].title : n \in 1..Len(results)} : t # <<>>}

\* (a load that stops after its first page: has_more is not followed)
LoadQueryOnePage ==
    /\ pc = "load"
    /\ has_more
    /\ \E ok \in BOOLEAN :
         /\ calls' = Append(calls, Call("query", <<>>, start_cursor, ok))
         /\ IF ok
            THEN LET response == QueryPage(LiveIds(store), start_cursor, PageSize)
                 IN  /\ existing' = existing \cup TitlesOf(store, response.results)
                     /\ has_more' = FALSE
                     /\ start_cursor' = response.next_cursor
                     /\ pc' = "reconcile"
            ELSE /\ pc' = "reconcile"
                 /\ UNCHANGED <<existing, has_more, start_cursor>>
    /\ UNCHANGED <<keywords, min_relevance, max_articles, store, feed, articles,
                   idx, new_count, pages, to_archive, arch, run, prev, text_in,
                   relevance>>


\* fetch_existing_titles: one pass of `while has_more`, or the except
LoadQuery ==
    /\ pc = "load"
    /\ has_more
    /\ \E ok \in BOOLEAN :
         /\ calls' = Append(calls, Call("query", <<>>, start_cursor, ok))
         /\ IF ok
            THEN LET response == QueryPage(LiveIds(store), start_cursor, PageSize)
                 IN  /\ existing' = existing \cup TitlesOf(store, response.results)
                     /\ has_more' = response.has_more
                     /\ start_cursor' = response.next_cursor
                     /\ pc' = IF response.has_more THEN "load" ELSE "reconcile"
            ELSE /\ pc' = "reconcile"
                 /\ UNCHANGED <<existing, has_more, start_cursor>>
    /\ UNCHANGED <<keywords, min_relevance, max_articles, store, feed, articles,
                   idx, new_count, pages, to_archive, arch, run, prev, text_in,
                   relevance>>

\* (a reconcile that would take the first max_articles new candidates)
ConsideredNewOnly ==
    LET new == SelectSeq(articles, LAMBDA a : a.title \notin existing)
    IN  SubSeq(new, 1, Min(Len(new), max_articles))

\* articles[:max_articles]
Considered == SubSeq(articles, 1, Min(Len(articles), max_articles))

\* (a loop that a failed add_entry ends: `break` on failure)
ReconcileStepBreak ==
    /\ pc = "reconcile"
    /\ idx <= Len(Considered)
    /\ LET article == Considered[idx]
       IN  IF article.title \notin existing
           THEN \E ok \in BOOLEAN :
                  /\ calls' = Append(calls, Call("create", article.title, idx, ok))
                  /\ store' = IF ok THEN CreatePage(store, article) ELSE store
                  /\ new_count' = IF ok THEN new_count + 1 ELSE new_count
                  /\ idx' = IF ok THEN idx + 1 ELSE Len(Considered) + 1
           ELSE /\ UNCHANGED <<calls, store, new_count>>
                /\ idx' = idx + 1
    /\ UNCHANGED <<keywords, min_relevance, max_articles, feed, articles, existing,
                   has_more, start_cursor, pc, pages, to_archive, arch, run, prev,
                   text_in, relevance>>


\* one pass of `for i, article in enumerate(articles[:max_articles], 1)`
ReconcileStep ==
    /\ pc = "reconcile"
    /\ idx <= Len(Considered)
    /\ LET article == Considered[idx]
       IN  IF article.title \notin existing
           THEN \E ok \in BOOLEAN :
                  /\ calls' = Append(calls, Call("create", article.title, idx, ok))
                  /\ store' = IF ok THEN CreatePage(store, article) ELSE store
                  /\ new_count' = IF ok THEN new_count + 1 ELSE new_count
           ELSE UNCHANGED <<calls, store, new_count>>
    /\ idx' = idx + 1
    /\ UNCHANGED <<keywords, min_relevance, max_articles, feed, articles, existing,
                   has_more, start_cursor, pc, pages, to_archive, arch, run, prev,
                   text_in, relevance>>

\* the loop is over: on to trim_database(max_articles)
ReconcileDone ==
    /\ pc = "reconcile"
    /\ idx > Len(Considered)
    /\ pc' = "trim"
    /\ UNCHANGED <<keywords, min_relevance, max_articles, store, feed, articles,
                   existing, has_more, start_cursor, idx, new_count, pages,
                   to_archive, arch, calls, run, prev, text_in, relevance>>

\* trim_database: the one sorted query, and to_archive
TrimQuery ==
    /\ pc = "trim"
    /\ \E ok \in BOOLEAN :
         /\ calls' = Append(calls, Call("sorted_query", <<>>, 0, ok))
         /\ IF ok
            THEN LET response == QueryPage(SortByDate(store, LiveIds(store), <<>>),
                                           0, PageSize)
                     n == Len(response.results) - max_articles
                 IN  /\ pages' = response.results
                     /\ to_archive' = n
                     /\ pc' = IF n > 0 THEN "archive" ELSE "done"
            ELSE /\ pc' = "done"
                 /\ UNCHANGED <<pages, to_archive>>
    /\ UNCHANGED <<keywords, min_relevance, max_articles, store, feed, articles,
                   existing, has_more, start_cursor, idx, new_count, arch, run,
                   prev, text_in, relevance>>

\* pages[:to_archive]
ToArchive == SubSeq(pages, 1, Min(Len(pages), to_archive))

\* one pass of `for page in pages[:to_archive]`, or the except
ArchiveStep ==
    /\ pc = "archive"
    /\ arch <= Len(ToArchive)
    /\ \E ok \in BOOLEAN :
         /\ calls' = Append(calls, Call("archive", <<>>, ToArchive[arch], ok))
         /\ IF ok
            THEN /\ store' = ArchivePage(store, ToArchive[arch])
                 /\ arch' = arch + 1
                 /\ pc' = IF arch + 1 > Len(ToArchive) THEN "done" ELSE "archive"
            ELSE /\ pc' = "done"
                 /\ UNCHANGED <<store, arch>>
    /\ UNCHANGED <<keywords, min_relevance, max_articles, feed, articles, existing,
                   has_more, start_cursor, idx, new_count, pages, to_archive, run,
                   prev, text_in, relevance>>

\* main has returned or died
Ended == pc \in {"done", "no_connection", "no_articles", "crashed"}

----------------------------------------------------------------------------
(* Inputs *)

\* the default configuration's shape: high and medium keywords, no low ones
DefaultKeywords ==
    [high_priority |-> << <<"g">> >>, medium_priority |-> << <<"c">> >>,
     low_priority |-> <<>>]

StoreTitles == {<<"G">>, <<"x">>}
StoreDates == 1..2

Records == [title : StoreTitles, date : StoreDates, archived : {FALSE}]

StoresUpTo(n) == UNION {[1..m -> Records] : m \in 0..n}

\* an entry as arXiv should send it, each element with children and text
GoodEntry(title, day) ==
    Entry(Elem("node", title), Elem("node", <<>>),
          Published("node", "naive", day), Elem("node", <<>>))

\* an entry whose elements carry text only (as arXiv's atom feed does)
LeafEntry(title, day) ==
    Entry(Elem("leaf", title), Elem("leaf", <<>>),
          Published("leaf", "naive", day), Elem("leaf", <<>>))

\* an entry whose date carries a timezone (2024-01-01T00:00:00Z)
AwareEntry(title, day) ==
    Entry(Elem("node", title), Elem("node", <<>>),
          Published("node", "aware", day), Elem("node", <<>>))

\* an entry without a summary element: entry.find(...) is None
MissingEntry(title, day) ==
    Entry(Elem("node", title), Elem("node", <<>>),
          Published("node", "naive", day), Elem("none", <<>>))


FeedTitles == {<<"G">>, <<"x">>, <<"x", " ">>}
FeedDays == 0..2

MainEntries ==
    {GoodEntry(t, d) : t \in FeedTitles, d \in FeedDays}
        \cup {LeafEntry(<<"G">>, 2), AwareEntry(<<"G">>, 2)}

Error == [status |-> "error", entries |-> <<>>]
Ok(entries) == [status |-> "ok", entries |-> entries]

MainResponses == {Error, Ok(<<>>)} \cup {Ok(<<e>>) : e \in MainEntries}

CategorySet == {arxiv_categories[n] : n \in 1..Len(arxiv_categories)}

MainFeeds == [CategorySet -> MainResponses]

NoFeed == [c \in CategorySet |-> Ok(<<>>)]
NoPrev == [articles |-> <<>>, pc |-> "none", created |-> {}, failed |-> {},
           archived |-> {}, ok |-> TRUE]
NoText == [title |-> <<>>, abstract |-> <<>>]
NoRelevance == [score |-> 0, matching_keywords |-> <<>>]

----------------------------------------------------------------------------
(* One run of main, from any store *)

Init ==
    /\ keywords = DefaultKeywords
    /\ min_relevance = 1
    /\ max_articles \in 0..MaxArticlesBound
    /\ store \in StoresUpTo(MaxInit)
    /\ pc = "start"
    /\ feed = NoFeed
    /\ Fresh
    /\ run = 1
    /\ prev = NoPrev
    /\ text_in = NoText
    /\ relevance = NoRelevance

Next ==
    \/ TestConnection
    \/ \E response \in MainResponses : DebugFetch(response)
    \/ \E responses \in MainFeeds : Fetch(responses)
    \/ LoadQuery
    \/ ReconcileStep
    \/ ReconcileDone
    \/ TrimQuery
    \/ ArchiveStep

Spec == Init /\ [][Next]_vars

----------------------------------------------------------------------------
(* Reading the log of a run *)

CallsOf(log, ops) == SelectSeq(log, LAMBDA c : c.op \in ops)

AllOk(log, ops) == \A n \in 1..Len(log) : log[n].op \in ops => log[n].ok

\* the ids archived in this run
ArchivedNow == {calls[n].id : n \in {m \in 1..Len(calls) :
                                       calls[m].op = "archive" /\ calls[m].ok}}

CreatedNow == Len(SelectSeq(calls, LAMBDA c : c.op = "create" /\ c.ok))

\* the store as this run found it: without the records it created, and
\* with the records it archived live again
StoreAtStart ==
    [n \in 1..(Len(store) - CreatedNow) |->
        IF n \in ArchivedNow THEN [store[n] EXCEPT !.archived = FALSE] ELSE store[n]]

\* the store as trim_database found it
StoreAtTrim ==
    [n \in 1..Len(store) |->
        IF n \in ArchivedNow THEN [store[n] EXCEPT !.archived = FALSE] ELSE store[n]]

NoDupLive(st) ==
    \A a, b \in Live(st) : a # b => st[a].title # st[b].title

----------------------------------------------------------------------------
(* C1..C5: dedup and retention, over one run of main from any store *)

StoreOps == {"query", "create", "sorted_query", "archive"}

\* C1: from a store in which no two live records share a title, no run of
\* main (here: even one whose store calls all succeed) leaves two live
\* records with the same title.
C1_DedupInvariant ==
    (NoDupLive(StoreAtStart) /\ AllOk(calls, StoreOps)) => NoDupLive(store)

\* C2: once a query of the existing-set load has failed, the run issues no
\* create call and no archive call.
C2_LoadErrorIsFatal ==
    ~AllOk(calls, {"query"}) =>
        CallsOf(calls, {"create", "archive"}) = <<>>

\* C3: when trim_database has completed and each of its store calls
\* succeeded, at most max_articles records are live.
C3_RetentionBound ==
    (pc = "done" /\ AllOk(calls, {"sorted_query", "archive"}))
        => Cardinality(Live(store)) <= max_articles

\* the ids trim should archive: the count - max_articles oldest, oldest first
OldestSurplus(st, keep) ==
    LET ids == SortByDate(st, LiveIds(st), <<>>)
    IN  SubSeq(ids, 1, Max(0, Len(ids) - keep))

ArchiveIds ==
    LET a == CallsOf(calls, {"archive"}) IN [n \in 1..Len(a) |-> a[n].id]

\* C4: when trim_database has completed and each of its store calls
\* succeeded, its archive calls are exactly the count - max_articles oldest
\* live records, oldest first (none when count <= max_articles).
C4_TrimRemovesOldest ==
    (pc = "done" /\ AllOk(calls, {"sorted_query", "archive"}))
        => ArchiveIds = OldestSurplus(StoreAtTrim, max_articles)

\* the `keep` most recent records of st, as a set of ids
MostRecent(st, keep) ==
    LET ids == SortByDate(st, LiveIds(st), <<>>)
    IN  {ids[n] : n \in (Max(0, Len(ids) - keep) + 1)..Len(ids)}

\* C5: at the end of every run that was not aborted (the connection test
\* passed, nothing crashed) and whose store calls all succeeded, at most
\* max_articles records are live, and they are the most recent of those
\* live when trimming started.
C5_RetentionWindow ==
    (pc \in {"done", "no_articles"}
        /\ AllOk(calls, StoreOps))
        => /\ Cardinality(Live(store)) <= max_articles
           /\ Live(store) = MostRecent(StoreAtTrim, max_articles)

----------------------------------------------------------------------------
(* C8: the considered budget of the reconcile loop *)

Creates == CallsOf(calls, {"create"})

\* C8: the create calls of a run go to candidates among the first
\* max_articles of the ranking, each at most once and in rank order, for the
\* candidate at that rank and only if its title is not in the existing set;
\* so there are at most max_articles of them, and the records the run adds
\* to the store are those of its successful create calls.
C8_ConsideredBudget ==
    LET ok == SelectSeq(Creates, LAMBDA c : c.ok)
        n0 == Len(store) - Len(ok)
    IN  /\ Len(Creates) <= max_articles
        /\ \A n \in 1..Len(Creates) :
              /\ Creates[n].id <= max_articles
              /\ Creates[n].id <= Len(articles)
              /\ Creates[n].title = articles[Creates[n].id].title
              /\ Creates[n].title \notin existing
        /\ \A a, b \in 1..Len(Creates) : a < b => Creates[a].id < Creates[b].id
        /\ \A n \in 1..Len(ok) : store[n0 + n].title = ok[n].title

\* a known first candidate used up a budget of one: the new second one was
\* not inserted
C8_Witness ==
    /\ pc = "done"
    /\ max_articles = 1
    /\ Len(articles) = 2
    /\ articles[1].title \in existing
    /\ articles[2].title \notin existing
    /\ Creates = <<>>

----------------------------------------------------------------------------
(* fetch_existing_titles alone, over stores of several pages *)

MaxLoadStore == 5

LoadRecords ==
    [title : StoreTitles \cup {<<>>}, date : {1}, archived : BOOLEAN]

InitLoad ==
    /\ keywords = DefaultKeywords
    /\ min_relevance = 1
    /\ max_articles = 0
    /\ store \in UNION {[1..m -> LoadRecords] : m \in 0..MaxLoadStore}
    /\ pc = "load"
    /\ feed = NoFeed
    /\ Fresh
    /\ run = 1
    /\ prev = NoPrev
    /\ text_in = NoText
    /\ relevance = NoRelevance

NextLoad == LoadQuery

SpecLoad == InitLoad /\ [][NextLoad]_vars

\* C7: when every page query succeeds, fetch_existing_titles returns
\* exactly the titles of the live records of the store, whatever the number
\* of pages they were served in.
C7_PaginationComplete ==
    (pc = "reconcile" /\ AllOk(calls, {"query"}))
        => existing = {store[n].title : n \in Live(store)} \ {<<>>}

\* three pages were served, and both titles were found
C7_Witness ==
    /\ pc = "reconcile"
    /\ Len(calls) = 3
    /\ AllOk(calls, {"query"})
    /\ existing = StoreTitles
    /\ store[Len(store)].title \notin {store[n].title : n \in 1..(Len(store) - 1)}

----------------------------------------------------------------------------
(* calculate_relevance alone, over texts and keyword configurations *)

ScoreChars == {"g", "G", "c"}
ScoreKeywords == {<<"g">>, <<"C">>, <<"g", " ", "c">>}

SeqsUpTo(S, n) == UNION {[1..m -> S] : m \in 0..n}

InitScore ==
    /\ keywords \in [high_priority : SeqsUpTo(ScoreKeywords, MaxKeywords),
                     medium_priority : SeqsUpTo(ScoreKeywords, MaxKeywords),
                     low_priority : SeqsUpTo(ScoreKeywords, MaxKeywords)]
    /\ text_in \in [title : SeqsUpTo(ScoreChars, MaxTitleLen),
                    abstract : {<<>>, <<"c">>}]
    /\ relevance = NoRelevance
    /\ pc = "score"
    /\ min_relevance = 1
    /\ max_articles = 0
    /\ store = <<>>
    /\ feed = NoFeed
    /\ Fresh
    /\ run = 1
    /\ prev = NoPrev

Score ==
    /\ pc = "score"
    /\ relevance' = calculate_relevance(keywords, text_in.title, text_in.abstract)
    /\ pc' = "scored"
    /\ UNCHANGED <<keywords, min_relevance, max_articles, store, feed, articles,
                   existing, has_more, start_cursor, idx, new_count, pages,
                   to_archive, arch, calls, run, prev, text_in>>

NextScore == Score

SpecScore == InitScore /\ [][NextScore]_vars

\* some keyword of the tier occurs in the case-folded title + " " + abstract
Occurs(tier) ==
    \E n \in 1..Len(tier) :
        IsSubstring(Lower(tier[n]), Lower(text_in.title \o <<" ">> \o text_in.abstract))

\* C10 as claimed: 5 for a high keyword, else 3 for a medium one, else 2
\* for a low one, else 1.
C10_TierScores_Claimed ==
    pc = "scored" =>
        relevance.score =
            IF Occurs(keywords.high_priority) THEN 5
            ELSE IF Occurs(keywords.medium_priority) THEN 3
            ELSE IF Occurs(keywords.low_priority) THEN 2
            ELSE 1

\* C10 (amended): 5 for a high keyword, else 3 for a medium one, else 1,
\* whether or not a low keyword occurs.
C10_TierScores ==
    pc = "scored" =>
        relevance.score =
            IF Occurs(keywords.high_priority) THEN 5
            ELSE IF Occurs(keywords.medium_priority) THEN 3
            ELSE 1

\* only a low keyword occurs, and the score is 1
C10_Witness ==
    /\ pc = "scored"
    /\ Occurs(keywords.low_priority)
    /\ ~Occurs(keywords.high_priority)
    /\ ~Occurs(keywords.medium_priority)
    /\ relevance.score = 1
    /\ relevance.matching_keywords # <<>>

----------------------------------------------------------------------------
(* Runs against a feed that stays the same *)

\* most records in the store before the first of several runs
MaxRunInit == 1

FetchFixed == Fetch(feed)

DebugFixed == \E response \in {Error, Ok(<<>>)} : DebugFetch(response)

\* (a next run that remembers the titles of the creates that failed)
NextRunRemember ==
    /\ Ended
    /\ run < MaxRuns
    /\ run' = run + 1
    /\ prev' = [articles |-> articles,
                pc |-> pc,
                created |-> {calls[n].title : n \in {m \in 1..Len(calls) :
                               calls[m].op = "create" /\ calls[m].ok}},
                failed |-> {calls[n].title : n \in {m \in 1..Len(calls) :
                               calls[m].op = "create" /\ ~calls[m].ok}},
                archived |-> ArchivedNow,
                ok |-> \A n \in 1..Len(calls) : calls[n].ok]
    /\ pc' = "start"
    /\ articles' = <<>> /\ has_more' = TRUE /\ start_cursor' = 0
    /\ existing' = {calls[n].title : n \in {m \in 1..Len(calls) :
                               calls[m].op = "create" /\ ~calls[m].ok}}
    /\ idx' = 1 /\ new_count' = 0 /\ pages' = <<>> /\ to_archive' = 0 /\ arch' = 1
    /\ calls' = <<>>
    /\ UNCHANGED <<keywords, min_relevance, max_articles, store, feed, text_in,
                   relevance>>


\* the process ends and the scheduler starts main again: nothing but the
\* store (and the configuration) is carried over
NextRun ==
    /\ Ended
    /\ run < MaxRuns
    /\ run' = run + 1
    /\ prev' = [articles |-> articles,
                pc |-> pc,
                created |-> {calls[n].title : n \in {m \in 1..Len(calls) :
                               calls[m].op = "create" /\ calls[m].ok}},
                failed |-> {calls[n].title : n \in {m \in 1..Len(calls) :
                               calls[m].op = "create" /\ ~calls[m].ok}},
                archived |-> ArchivedNow,
                ok |-> \A n \in 1..Len(calls) : calls[n].ok]
    /\ pc' = "start"
    /\ articles' = <<>> /\ existing' = {} /\ has_more' = TRUE /\ start_cursor' = 0
    /\ idx' = 1 /\ new_count' = 0 /\ pages' = <<>> /\ to_archive' = 0 /\ arch' = 1
    /\ calls' = <<>>
    /\ UNCHANGED <<keywords, min_relevance, max_articles, store, feed, text_in,
                   relevance>>

RunEntries == {GoodEntry(t, d) : t \in StoreTitles, d \in StoreDates}

RunFeeds ==
    [CategorySet -> {Error, Ok(<<>>)} \cup {Ok(<<e>>) : e \in RunEntries}]

InitRuns ==
    /\ keywords = DefaultKeywords
    /\ min_relevance = 1
    /\ max_articles \in 0..MaxArticlesBound
    /\ store \in StoresUpTo(MaxRunInit)
    /\ pc = "start"
    /\ feed \in RunFeeds
    /\ Fresh
    /\ run = 1
    /\ prev = NoPrev
    /\ text_in = NoText
    /\ relevance = NoRelevance

NextRuns ==
    \/ TestConnection
    \/ DebugFixed
    \/ FetchFixed
    \/ LoadQuery
    \/ ReconcileStep
    \/ ReconcileDone
    \/ TrimQuery
    \/ ArchiveStep
    \/ NextRun

SpecRuns == InitRuns /\ [][NextRuns]_vars

\* the reconcile loop of this run is over, after an existing-set load whose
\* queries all succeeded, and the run before it saw the same candidates,
\* finished its own loop and archived nothing since
SecondPassDone ==
    /\ run >= 2
    /\ prev.pc = "done"
    /\ prev.archived = {}
    /\ articles = prev.articles
    /\ pc \in {"trim", "archive", "done"}
    /\ AllOk(calls, {"query"})

\* C6 as claimed: the second pass over the same candidates, with the
\* existing set reloaded from the store, issues no create call.
C6_Idempotence_Claimed == SecondPassDone => Creates = <<>>

\* C6 (amended): it issues none provided every create call of the first
\* pass succeeded.
C6_Idempotence == (SecondPassDone /\ prev.failed = {}) => Creates = <<>>

\* the first pass inserted two records, the second found both and inserted
\* nothing
C6_Witness ==
    /\ SecondPassDone
    /\ prev.failed = {}
    /\ Cardinality(prev.created) = 2
    /\ idx = 3
    /\ Creates = <<>>

----------------------------------------------------------------------------
(* One run from the fetch on, over feeds of several entries per category *)

FetchEntries ==
    RunEntries \cup {LeafEntry(<<"G">>, 2), AwareEntry(<<"G">>, 2),
                     GoodEntry(<<"x">>, 0), MissingEntry(<<"G">>, 2)}

FetchFeeds ==
    [CategorySet -> {Error} \cup {Ok(<<e>>) : e \in RunEntries}]
        \cup {[c \in CategorySet |->
                 IF c = arxiv_categories[1] THEN Ok(es) ELSE r] :
                 es \in SeqsUpTo(FetchEntries, MaxEntries),
                 r \in {Error, Ok(<<>>)} \cup {Ok(<<e>>) : e \in RunEntries}}

InitFetch ==
    /\ keywords = DefaultKeywords
    /\ min_relevance = 1
    /\ max_articles \in 0..MaxArticlesBound
    /\ store \in {<<>>, <<[title |-> <<"x">>, date |-> 1, archived |-> FALSE]>>}
    /\ pc = "fetch"
    /\ feed \in FetchFeeds
    /\ Fresh
    /\ run = 1
    /\ prev = NoPrev
    /\ text_in = NoText
    /\ relevance = NoRelevance

NextFetch ==
    \/ FetchFixed
    \/ LoadQuery
    \/ ReconcileStep
    \/ ReconcileDone
    \/ TrimQuery
    \/ ArchiveStep

SpecFetch == InitFetch /\ [][NextFetch]_vars

\* the items the category loop kept, in the order it appended them
Kept ==
    FetchLoop(arxiv_categories, feed, keywords, min_relevance,
              [all_entries |-> <<>>, requested |-> <<>>]).all_entries

Count(seq, x) == Cardinality({n \in 1..Len(seq) : seq[n] = x})

\* C9: what fetch_arxiv_articles returns holds the items kept from all the
\* categories, each as often as it was kept, with a higher score before a
\* lower one and, at equal scores, a later date before an earlier one (seen
\* where fetch_arxiv_articles returns); and the create calls of the run go
\* down that ranking.
C9_DeterministicRanking ==
    /\ pc \in {"load", "no_articles"} =>
        LET kept == Kept
        IN  /\ Len(articles) = Len(kept)
            /\ \A n \in 1..Len(kept) :
                  Count(articles, kept[n]) = Count(kept, kept[n])
            /\ \A a, b \in 1..Len(articles) :
                  a < b => \/ articles[a].relevance > articles[b].relevance
                           \/ /\ articles[a].relevance = articles[b].relevance
                              /\ articles[a].published >= articles[b].published
    /\ \A n \in 1..Len(Creates) :
          Creates[n].title = articles[Creates[n].id].title
    /\ \A a, b \in 1..Len(Creates) : a < b => Creates[a].id < Creates[b].id

\* three items came back in another order than they were kept in, two of
\* them ranked by date alone, and the first two were inserted in rank order
C9_Witness ==
    /\ pc = "done"
    /\ Len(articles) = 3
    /\ articles # Kept
    /\ articles[1].relevance > articles[2].relevance
    /\ articles[2].relevance = articles[3].relevance
    /\ articles[2].published > articles[3].published
    /\ Kept[1] = articles[3]
    /\ Len(Creates) = 2
    /\ Creates[1].id = 1 /\ Creates[2].id = 2

----------------------------------------------------------------------------
(* C11: the scorer is total (checked under SpecScore) *)

\* C11: whatever the title, the abstract and the keyword configuration
\* (empty tiers included), the score returned lies in 1..5.
C11_ScoreTotality ==
    pc = "scored" => relevance.score \in 1..5

\* all three tiers are empty and the text is not: the score is 1
C11_Witness ==
    /\ pc = "scored"
    /\ keywords.high_priority = <<>>
    /\ keywords.medium_priority = <<>>
    /\ keywords.low_priority = <<>>
    /\ text_in.title # <<>>
    /\ relevance.score = 1
    /\ relevance.matching_keywords = <<>>

----------------------------------------------------------------------------
(* C12: a failing category does not abort the fetch (checked under SpecFetch) *)

\* what one category yields on its own
OfCategory(c) ==
    ProcessCategory(feed[c], c, keywords, min_relevance, <<>>)

Requested ==
    FetchLoop(arxiv_categories, feed, keywords, min_relevance,
              [all_entries |-> <<>>, requested |-> <<>>]).requested

\* C12: whatever category fails (request error, entry that raises), every
\* category of the list is requested once and in list order, and the items of
\* every category are in the sequence returned.
C12_CategoryContainment ==
    pc \in {"load", "no_articles"} =>
        /\ Requested = arxiv_categories
        /\ \A n \in 1..Len(arxiv_categories) :
              LET own == OfCategory(arxiv_categories[n])
              IN  \A k \in 1..Len(own) : Count(articles, own[k]) >= 1

\* the first category's request fails, the second category's item is returned
C12_Witness ==
    /\ pc = "load"
    /\ feed[arxiv_categories[1]].status = "error"
    /\ \E n \in 1..Len(articles) : articles[n].category = arxiv_categories[2]

----------------------------------------------------------------------------
(* C13: a failed insert does not stop the reconcile loop (checked under Spec) *)

\* the ranks the loop has passed
Passed ==
    IF pc = "reconcile" THEN 1..(idx - 1) ELSE 1..Len(Considered)

\* C13: whatever create call fails, the ranks that got a create call are
\* exactly the ranks passed within the considered budget whose title is not
\* in the existing set, each once and in rank order (no retry, no candidate
\* left out after a failure), and new_count counts the successful calls only.
C13_InsertContainment ==
    pc \in {"reconcile", "trim", "archive", "done"} =>
        /\ {Creates[n].id : n \in 1..Len(Creates)}
              = {n \in Passed : Considered[n].title \notin existing}
        /\ \A a, b \in 1..Len(Creates) : a < b => Creates[a].id < Creates[b].id
        /\ new_count = Len(SelectSeq(Creates, LAMBDA c : c.ok))

\* the first candidate's create call failed, the second one's was made and
\* succeeded: one insert counted
C13_Witness ==
    /\ pc = "done"
    /\ Len(Creates) = 2
    /\ ~Creates[1].ok
    /\ Creates[2].ok
    /\ Creates[1].title # Creates[2].title
    /\ new_count = 1

----------------------------------------------------------------------------
(* C14: a failed archive call and the rest of trim (checked under Spec) *)

\* C14: when trim_database is over (every other store call of the run having
\* succeeded), every record of pages[:to_archive] has had its archive call,
\* in order, whether or not an earlier archive call failed.
C14_ArchiveContainment ==
    (pc = "done" /\ AllOk(calls, {"query", "create", "sorted_query"}))
        => ArchiveIds = ToArchive

----------------------------------------------------------------------------
(* C15: the steps of main, in order (checked under Spec) *)

\* the step of the run main is in
Stage(p) ==
    CASE p = "start" -> "Init"
      [] p \in {"debug", "fetch"} -> "Fetching"
      [] p = "load" -> "LoadingExisting"
      [] p = "reconcile" -> "Reconciling"
      [] p \in {"trim", "archive"} -> "Trimming"
      [] p \in {"done", "no_articles"} -> "Done"       \* main returned
      [] OTHER -> "Aborted"                            \* no connection, or died

StageOrder ==
    {<<"Init", "Fetching">>, <<"Fetching", "LoadingExisting">>,
     <<"LoadingExisting", "Reconciling">>, <<"Reconciling", "Trimming">>,
     <<"Trimming", "Done">>, <<"Init", "Aborted">>,
     <<"LoadingExisting", "Aborted">>}

\* C15: a run moves from step to step in the order Init, Fetching,
\* LoadingExisting, Reconciling, Trimming, Done; it is Done only from
\* Trimming and Aborted only from Init or LoadingExisting.
C15_StepSequence ==
    [][Stage(pc') = Stage(pc) \/ <<Stage(pc), Stage(pc')>> \in StageOrder]_vars

----------------------------------------------------------------------------
(* C16: what a category that raises contributes (checked under SpecFetch) *)

\* the try body of category c raises: on the request, or on one of its entries
CategoryRaises(c) ==
    \/ feed[c].status = "error"
    \/ \E n \in 1..Len(feed[c].entries) :
          ProcessEntry(feed[c].entries[n], c, keywords, min_relevance).kind = "raise"

\* C16: no item of a category whose processing raised is in the sequence
\* returned, also when the error came after entries of that category had
\* been accepted.
C16_RaisingCategoryIsEmpty ==
    pc \in {"load", "no_articles"} =>
        \A c \in CategorySet :
            CategoryRaises(c) =>
                \A n \in 1..Len(articles) : articles[n].category # c

----------------------------------------------------------------------------
(* C17: an entry lacking an element is skipped, the others are returned
   (checked under SpecFetch) *)

Elems(entry) ==
    {entry.title_elem, entry.link_elem, entry.published_elem, entry.summary_elem}

\* entry.find(...) found all four elements
HasAllFour(entry) == \A e \in Elems(entry) : e.kind # "none"

\* the publication date is not older than the cutoff
InWindow(entry) ==
    /\ entry.published_elem.fmt \in {"naive", "aware"}
    /\ entry.published_elem.day >= cutoff_date

\* C17: on a page holding an entry that lacks one of the four elements,
\* every entry that has all four, a publication date not older than the
\* cutoff and a score of at least min_relevance is returned as an item of
\* its category.
C17_SkipAndContinue ==
    pc \in {"load", "no_articles"} =>
        \A c \in CategorySet :
            LET es == feed[c].entries
            IN  (feed[c].status = "ok" /\ \E m \in 1..Len(es) : ~HasAllFour(es[m]))
                => \A n \in 1..Len(es) :
                      LET title == Normalize(es[n].title_elem.text)
                          rel == calculate_relevance(keywords, title,
                                     Normalize(es[n].summary_elem.text))
                      IN  (HasAllFour(es[n]) /\ InWindow(es[n])
                             /\ rel.score >= min_relevance)
                          => \E k \in 1..Len(articles) :
                                /\ articles[k].category = c
                                /\ articles[k].title = title
                                /\ articles[k].published = es[n].published_elem.day

----------------------------------------------------------------------------
(* C18: the cursor protocol of fetch_existing_titles (checked under SpecLoad) *)

\* the number of pages the store serves its live records in
NumPages ==
    LET live == Len(LiveIds(store))
    IN  IF live = 0 THEN 1 ELSE (live + PageSize - 1) \div PageSize

\* the store's answer to the n-th query
ResponseTo(n) == QueryPage(LiveIds(store), calls[n].id, PageSize)

\* C18: as long as the queries succeed, the first query carries no cursor,
\* each later query carries the cursor of the response just before it, which
\* reported more pages; the function has returned exactly when the last
\* response reported no further page, having issued one query per page.
C18_PaginationProtocol ==
    AllOk(calls, {"query"}) =>
        /\ Len(calls) <= NumPages
        /\ calls # <<>> => calls[1].id = 0
        /\ \A n \in 2..Len(calls) :
              /\ ResponseTo(n - 1).has_more
              /\ calls[n].id = ResponseTo(n - 1).next_cursor
              /\ calls[n].id # 0
        /\ pc = "reconcile" =>
              /\ calls # <<>>
              /\ ~ResponseTo(Len(calls)).has_more
              /\ Len(calls) = NumPages
        /\ (pc = "load" /\ calls # <<>>) => ResponseTo(Len(calls)).has_more

\* three pages: the second and third queries carry the cursors of the pages
\* before them, and the third response ends the loop
C18_Witness ==
    /\ pc = "reconcile"
    /\ AllOk(calls, {"query"})
    /\ Len(calls) = 3
    /\ calls[1].id = 0
    /\ calls[2].id > 0
    /\ calls[3].id = calls[2].id + PageSize
    /\ NumPages = 3

----------------------------------------------------------------------------
(* C19: two full runs on the same feed (checked under SpecRuns) *)

\* C19: when a full run (fetch, load, reconcile, trim) follows a full run on
\* the same feed and no store call of either run failed, the second run
\* issues no create call and no archive call.
C19_Convergence ==
    (/\ run = 2
     /\ prev.pc = "done"
     /\ prev.ok
     /\ AllOk(calls, StoreOps))
        => CallsOf(calls, {"create", "archive"}) = <<>>

----------------------------------------------------------------------------
(* C20: a failed insert is attempted again by the next run (checked under
   SpecRuns) *)

LiveTitles(st) == {st[n].title : n \in Live(st)}

\* C20: a run starts with nothing kept of the run before but the store; and
\* once its reconcile loop is over, every candidate within the considered
\* budget whose create call failed in the run before and whose title was not
\* among the live records the run found has had its create call.
C20_FailedInsertRetried ==
    /\ (run >= 2 /\ pc = "start") => Fresh
    /\ (run >= 2 /\ pc \in {"trim", "archive", "done"}) =>
          \A n \in 1..Len(Considered) :
              (/\ Considered[n].title \in prev.failed
               /\ Considered[n].title \notin LiveTitles(StoreAtStart))
                  => \E k \in 1..Len(Creates) :
                        /\ Creates[k].id = n
                        /\ Creates[k].title = Considered[n].title

\* the create call that failed in the first run is made again, and succeeds,
\* in the second
C20_Witness ==
    /\ run = 2
    /\ pc = "done"
    /\ prev.failed # {}
    /\ \E k \in 1..Len(Creates) :
          /\ Creates[k].title \in prev.failed
          /\ Creates[k].title \notin LiveTitles(StoreAtStart)
          /\ Creates[k].ok

====
